---- MODULE Spec2Model ----
(***************************************************************************)
(* Model of src/main.py: the daily Slack summary pipeline.                 *)
(*                                                                         *)
(* Python strings are sequences of one-character strings; None is the      *)
(* empty tuple and a present value x is the one-element tuple <<x>>.       *)
(* A datetime is a record [y, mo, d, h, mi, s, us].                        *)
(***************************************************************************)
EXTENDS Integers, Sequences, FiniteSets, TLC

VARIABLES
    rows,        \* the worksheet's records (get_all_records)
    now,         \* the wall clock, datetime.datetime.now()
    ticks,       \* number of clock advances so far
    pc,          \* position of the running function
    configs,     \* main: configs
    idx,         \* main: position of the for loop in configs (1-based)
    today,       \* get_yesterday_messages: today
    window,      \* get_yesterday_messages: oldest / latest
    response,    \* get_yesterday_messages: result["messages"], as returned
    text_data,   \* get_yesterday_messages: text_data
    text,        \* main: text (summarize_text: text)
    prompt,      \* summarize_text: prompt, by its parts
    summary,     \* main: summary
    doc_id,      \* create_google_doc: doc_id
    prev_parents,\* create_google_doc: previous_parents
    docs,        \* the document/storage service: documents created so far
    fetches,     \* what each call of get_yesterday_messages was given and returned
    calls        \* every external service call issued so far, in order

vars == <<rows, now, ticks, pc, configs, idx, today, window, response,
          text_data, text, prompt, summary, doc_id, prev_parents, docs, fetches,
          calls>>

---------------------------------------------------------------------------
(* Bounds of the model *)

MaxRows == 2
MaxMsgs == 2
MaxTicks == 1
MaxOver == 2
MaxSheetRows == 3

(* Program constants *)

MaxPromptChars == 20000

---------------------------------------------------------------------------
(* Python values *)

None == <<>>
Some(x) == <<x>>
Val(o) == o[1]

\* a truth test that takes only None for false
Truthy_NotNone(t) == t # None

\* Truth value of an Optional string: None and '' are falsy
Truthy(t) == t # None /\ Len(Val(t)) > 0

\* s[:n]
Slice(s, n) == SubSeq(s, 1, IF Len(s) < n THEN Len(s) ELSE n)

RECURSIVE Join(_, _)
\* sep.join(lines)
Join(sep, lines) ==
    IF Len(lines) = 0 THEN <<>>
    ELSE IF Len(lines) = 1 THEN lines[1]
    ELSE lines[1] \o sep \o Join(sep, Tail(lines))

\* lines[::-1]
Reverse(s) == [i \in 1..Len(s) |-> s[Len(s) + 1 - i]]

Digits == <<"0", "1", "2", "3", "4", "5", "6", "7", "8", "9">>
Digit(n) == Digits[n + 1]

RECURSIVE Pad(_, _)
\* n rendered in decimal, zero padded to w digits
Pad(n, w) == IF w = 0 THEN <<>> ELSE Pad(n \div 10, w - 1) \o <<Digit(n % 10)>>

---------------------------------------------------------------------------
(* datetime *)

IsLeap(y) == (y % 4 = 0 /\ y % 100 # 0) \/ y % 400 = 0

DaysInMonth(y, m) ==
    IF m = 2 THEN (IF IsLeap(y) THEN 29 ELSE 28)
    ELSE IF m \in {4, 6, 9, 11} THEN 30 ELSE 31

RECURSIVE DaysBeforeMonth(_, _)
DaysBeforeMonth(y, m) ==
    IF m = 1 THEN 0 ELSE DaysBeforeMonth(y, m - 1) + DaysInMonth(y, m - 1)

DaysBeforeYear(y) ==
    (y - 1) * 365 + (y - 1) \div 4 - (y - 1) \div 100 + (y - 1) \div 400

\* proleptic Gregorian ordinal, 0001-01-01 is day 1
Ymd2Ord(y, m, d) == DaysBeforeYear(y) + DaysBeforeMonth(y, m) + d

\* dt - datetime.timedelta(days=1): one calendar day back, time of day kept
MinusOneDay(dt) ==
    IF dt.d > 1 THEN [dt EXCEPT !.d = dt.d - 1]
    ELSE IF dt.mo > 1
         THEN [dt EXCEPT !.mo = dt.mo - 1, !.d = DaysInMonth(dt.y, dt.mo - 1)]
         ELSE [dt EXCEPT !.y = dt.y - 1, !.mo = 12, !.d = 31]

\* one calendar day forward, time of day kept
PlusOneDay(dt) ==
    IF dt.d < DaysInMonth(dt.y, dt.mo) THEN [dt EXCEPT !.d = dt.d + 1]
    ELSE IF dt.mo < 12 THEN [dt EXCEPT !.mo = dt.mo + 1, !.d = 1]
         ELSE [dt EXCEPT !.y = dt.y + 1, !.mo = 1, !.d = 1]

\* dt.replace(hour=h, minute=mi, second=s): the microsecond is not named and is kept
ReplaceHMS(dt, h, mi, s) == [dt EXCEPT !.h = h, !.mi = mi, !.s = s]

\* dt.timestamp(): seconds since 1970-01-01 (ordinal 719163) and the sub-second part
Timestamp(dt) ==
    [sec  |-> (Ymd2Ord(dt.y, dt.mo, dt.d) - 719163) * 86400
              + dt.h * 3600 + dt.mi * 60 + dt.s,
     usec |-> dt.us]

\* dt.strftime('%Y-%m-%d')
Strftime(dt) == Pad(dt.y, 4) \o <<"-">> \o Pad(dt.mo, 2) \o <<"-">> \o Pad(dt.d, 2)

\* the calendar date of a datetime
DateOf(dt) == <<dt.y, dt.mo, dt.d>>

---------------------------------------------------------------------------
(* get_configs *)

\* a filter that only drops the rows marked Inactive
IsActive_NotInactive(row) == row.Status # "Inactive"

\* row.get('Status') == 'Active'
IsActive(row) == row.Status = "Active"

\* [row for row in rows if row.get('Status') == 'Active']
get_configs(rs) == SelectSeq(rs, IsActive)

---------------------------------------------------------------------------
(* get_yesterday_messages *)

Yesterday(t) == MinusOneDay(t)
Oldest(t) == Timestamp(ReplaceHMS(Yesterday(t), 0, 0, 0))
Latest(t) == Timestamp(ReplaceHMS(Yesterday(t), 23, 59, 59))
Window(t) == [oldest |-> Oldest(t), latest |-> Latest(t)]

\* m.get('user', 'Unknown')
UserOf(m) == IF m.user = None THEN <<"U", "n", "k", "n", "o", "w", "n">> ELSE Val(m.user)

\* m.get('text', '')
TextOf(m) == IF m.text = None THEN <<>> ELSE Val(m.text)

\* f"User({user}): {text}"
FormatLine(m) ==
    <<"U", "s", "e", "r", "(">> \o UserOf(m) \o <<")", ":", " ">> \o TextOf(m)

\* a loop without the test of line 69
HasText_Any(m) == TRUE

\* line 69: if text
HasText(m) == Len(TextOf(m)) > 0

\* a loop over the messages as returned
Visit_AsReturned(messages) == messages

\* line 66, messages[::-1]: the order in which the loop visits the messages
Visit(messages) == Reverse(messages)

RECURSIVE Lines(_)
\* the loop of lines 65-70 over an already ordered list of messages
Lines(ms) ==
    IF Len(ms) = 0 THEN <<>>
    ELSE (IF HasText(Head(ms)) THEN <<FormatLine(Head(ms))>> ELSE <<>>)
         \o Lines(Tail(ms))

TextData(messages) == Lines(Visit(messages))

\* the value returned on the non-raising path (lines 61-71)
Transcript(messages) ==
    IF Len(messages) = 0 THEN None
    ELSE Some(Join(<<"\n">>, TextData(messages)))

---------------------------------------------------------------------------
(* summarize_text *)

\* a slice that keeps one character more
EmbeddedLog_OneMore(t) == Slice(t, MaxPromptChars + 1)

\* text[:20000]
EmbeddedLog(t) == Slice(t, MaxPromptChars)

\* the f-string of lines 81-93, by its parts
BuildPrompt(t, project_name) ==
    [persona |-> "PM", project |-> project_name,
     requirements |-> "R1-R4", log |-> EmbeddedLog(t)]

---------------------------------------------------------------------------
(* create_google_doc *)

\* f"{yesterday_str}_{project_name}_<U+65E5><U+5831>"; the two kanji are the
\* characters "u65E5" and "u5831"
DocTitle(t, project_name) ==
    Strftime(MinusOneDay(t)) \o <<"_">> \o project_name \o <<"_", "u65E5", "u5831">>

---------------------------------------------------------------------------
(* Inputs *)

StatusValues == {"Active", "Inactive", "active"}

\* the record of sheet row k; the project name and channel id columns
SheetRow(k, st) ==
    [Status |-> st, name |-> <<"P", Digit(k)>>, channel |-> <<"C", Digit(k)>>]

\* the sheets of at most n rows
Sheets(n) ==
    UNION {{[k \in 1..len |-> SheetRow(k, f[k])] : f \in [1..len -> StatusValues]}
           : len \in 0..n}

Users == {None, Some(<<"U", "7">>)}
Texts == {None, Some(<<>>), Some(<<"h", "i">>)}

\* the responses of at most n messages; ts orders the messages in time and the
\* service may return them in any order
Responses(n) ==
    UNION {{r \in [1..len -> [ts : 1..len, user : Users, text : Texts]] :
               \A i, j \in 1..len : i # j => r[i].ts # r[j].ts}
           : len \in 0..n}

FetchResponses == Responses(MaxMsgs)

\* the channel contents the whole pipeline is run on
ChannelContents == {r \in FetchResponses : Len(r) <= 1}

\* response.text of the inference service
Summaries == {<<"s">>, <<"s", "2">>}

StartDates == {[y |-> 2024, mo |-> 3, d |-> 1], [y |-> 2025, mo |-> 1, d |-> 1]}

TimesOfDay ==
    <<[h |-> 0, mi |-> 0, s |-> 0, us |-> 0],
      [h |-> 10, mi |-> 30, s |-> 15, us |-> 500000],
      [h |-> 23, mi |-> 59, s |-> 59, us |-> 999999]>>

At(date, tod) ==
    [y |-> date.y, mo |-> date.mo, d |-> date.d,
     h |-> tod.h, mi |-> tod.mi, s |-> tod.s, us |-> tod.us]

Instants == {At(date, TimesOfDay[k]) : date \in StartDates, k \in DOMAIN TimesOfDay}

TimeIndex(dt) ==
    CHOOSE k \in DOMAIN TimesOfDay : At(dt, TimesOfDay[k]) = dt

\* the next instant the clock shows
NextInstant(dt) ==
    IF TimeIndex(dt) < Len(TimesOfDay)
    THEN At(dt, TimesOfDay[TimeIndex(dt) + 1])
    ELSE At(PlusOneDay(dt), TimesOfDay[1])

\* text of n characters
LongText(n, p) == [i \in 1..n |-> Digit(i % p)]

\* message texts whose one-line transcript "User(U7): <text>" (10 characters more)
\* is one character short of the prompt's limit, at it, and up to MaxOver over it
LongTexts ==
    {LongText(n, p) : n \in {1} \cup ((MaxPromptChars - 11)..(MaxPromptChars - 10 + MaxOver)),
                      p \in 2..4}

LongResponses ==
    {<<[ts |-> 1, user |-> u, text |-> Some(t)]>> : u \in Users, t \in LongTexts}

---------------------------------------------------------------------------
(* Service calls *)

Call(svc, proj, ok) == [svc |-> svc, proj |-> proj, ok |-> ok]

DRIVE_FOLDER_ID == "folder"

project_name == configs[idx].name
channel_id == configs[idx].channel

---------------------------------------------------------------------------
(* Initial states *)

Locals ==
    /\ today = None /\ window = None /\ response = None /\ text_data = <<>>
    /\ text = None /\ prompt = None /\ summary = None
    /\ doc_id = 0 /\ prev_parents = {}
    /\ docs = <<>> /\ fetches = <<>> /\ calls = <<>> /\ ticks = 0

\* the instants at which the runs of main start
RunStarts == {dt \in Instants : dt.y = 2024}

Init ==
    /\ rows \in Sheets(MaxRows)
    /\ now \in RunStarts
    /\ pc = "start" /\ configs = <<>> /\ idx = 0
    /\ Locals

---------------------------------------------------------------------------
(* main *)

\* line 122, the sheet read succeeds
LoadConfigs ==
    /\ pc = "start"
    /\ configs' = get_configs(rows)
    /\ idx' = 1
    /\ pc' = "loop"
    /\ calls' = Append(calls, Call("get_all_records", 0, TRUE))
    /\ UNCHANGED <<rows, now, ticks, today, window, response, text_data, text,
                   prompt, summary, doc_id, prev_parents, docs, fetches>>

\* line 122, the sheet read raises
LoadConfigsFail ==
    /\ pc = "start"
    /\ pc' = "error"
    /\ calls' = Append(calls, Call("get_all_records", 0, FALSE))
    /\ UNCHANGED <<rows, now, ticks, configs, idx, today, window, response,
                   text_data, text, prompt, summary, doc_id, prev_parents, docs,
                   fetches>>

\* lines 51-71: get_yesterday_messages when conversations_history returns r
gym_returns(r) ==
    /\ today' = Some(now)
    /\ window' = Some(Window(now))
    /\ response' = Some(r)
    /\ text_data' = IF Len(r) = 0 THEN text_data ELSE TextData(r)
    /\ text' = Transcript(r)
    /\ fetches' = Append(fetches, [proj |-> idx, day |-> Yesterday(now),
                                   messages |-> Some(r), text |-> Transcript(r)])
    /\ calls' = Append(calls, Call("conversations_history", idx, TRUE))

\* lines 51-60, 72-74: get_yesterday_messages when conversations_history raises
gym_catches ==
    /\ today' = Some(now)
    /\ window' = Some(Window(now))
    /\ text' = None
    /\ fetches' = Append(fetches, [proj |-> idx, day |-> Yesterday(now),
                                   messages |-> None, text |-> None])
    /\ calls' = Append(calls, Call("conversations_history", idx, FALSE))
    /\ UNCHANGED <<response, text_data>>

\* lines 131-136: the branch on the transcript
Branch ==
    IF Truthy(text')
    THEN pc' = "summarize" /\ idx' = idx
    ELSE pc' = "loop" /\ idx' = idx + 1

\* lines 125-131, 135-136, the channel's messages drawn from S
FetchFrom(S) ==
    /\ pc = "loop" /\ idx <= Len(configs)
    /\ \E r \in S : gym_returns(r)
    /\ Branch
    /\ UNCHANGED <<rows, now, ticks, configs, prompt, summary, doc_id,
                   prev_parents, docs>>

FetchOk == FetchFrom(ChannelContents)

\* a fetch without the handler of lines 72-74: the exception leaves main
FetchErr_Propagates ==
    /\ pc = "loop" /\ idx <= Len(configs)
    /\ today' = Some(now)
    /\ window' = Some(Window(now))
    /\ calls' = Append(calls, Call("conversations_history", idx, FALSE))
    /\ pc' = "error"
    /\ UNCHANGED <<rows, now, ticks, configs, idx, response, text_data, text,
                   prompt, summary, doc_id, prev_parents, docs, fetches>>

\* lines 125-131, 135-136 with the handler of lines 72-74
FetchErr ==
    /\ pc = "loop" /\ idx <= Len(configs)
    /\ gym_catches
    /\ Branch
    /\ UNCHANGED <<rows, now, ticks, configs, prompt, summary, doc_id,
                   prev_parents, docs>>

\* the for loop is exhausted
Finish ==
    /\ pc = "loop" /\ idx > Len(configs)
    /\ pc' = "done"
    /\ UNCHANGED <<rows, now, ticks, configs, idx, today, window, response,
                   text_data, text, prompt, summary, doc_id, prev_parents, docs,
                   fetches, calls>>

\* lines 81-97: the prompt is built and generate_content returns s
st_generates(s) ==
    /\ prompt' = Some(BuildPrompt(Val(text), project_name))
    /\ summary' = Some(s)
    /\ calls' = Append(calls, Call("generate_content", idx, TRUE))

\* lines 81-96: the prompt is built and generate_content raises
st_raises ==
    /\ prompt' = Some(BuildPrompt(Val(text), project_name))
    /\ calls' = Append(calls, Call("generate_content", idx, FALSE))
    /\ UNCHANGED summary

\* line 133
SummarizeOk ==
    /\ pc = "summarize"
    /\ \E s \in Summaries : st_generates(s)
    /\ pc' = "create"
    /\ UNCHANGED <<rows, now, ticks, configs, idx, today, window, response,
                   text_data, text, doc_id, prev_parents, docs, fetches>>

\* an inference failure that is caught per project: the loop goes on
SummarizeFail_Continues ==
    /\ pc = "summarize"
    /\ st_raises
    /\ pc' = "loop"
    /\ idx' = idx + 1
    /\ UNCHANGED <<rows, now, ticks, configs, today, window, response,
                   text_data, text, doc_id, prev_parents, docs, fetches>>

\* line 133, the exception leaves main
SummarizeFail ==
    /\ pc = "summarize"
    /\ st_raises
    /\ pc' = "error"
    /\ UNCHANGED <<rows, now, ticks, configs, idx, today, window, response,
                   text_data, text, doc_id, prev_parents, docs, fetches>>

---------------------------------------------------------------------------
(* create_google_doc *)

Unchanged_doc ==
    UNCHANGED <<rows, now, ticks, configs, today, window, response, text_data,
                text, prompt, summary, fetches>>

\* lines 101-107
CreateOk ==
    /\ pc = "create"
    /\ docs' = Append(docs, [proj |-> idx, title |-> DocTitle(now, project_name),
                             body |-> <<>>, parents |-> {"root"}])
    /\ doc_id' = Len(docs) + 1
    /\ calls' = Append(calls, Call("documents.create", idx, TRUE))
    /\ pc' = "write"
    /\ UNCHANGED <<idx, prev_parents>>
    /\ Unchanged_doc

\* a call of create_google_doc raises: the exception leaves main
doc_raises(svc) ==
    /\ calls' = Append(calls, Call(svc, idx, FALSE))
    /\ pc' = "error"
    /\ UNCHANGED <<idx, doc_id, prev_parents, docs>>
    /\ Unchanged_doc

CreateFail == pc = "create" /\ doc_raises("documents.create")

\* a write followed by the move without the read of the parents
WriteOk_NoParentRead ==
    /\ pc = "write"
    /\ docs' = [docs EXCEPT ![doc_id].body = Val(summary) \o @]
    /\ calls' = Append(calls, Call("documents.batchUpdate", idx, TRUE))
    /\ pc' = "move"
    /\ UNCHANGED <<idx, doc_id, prev_parents>>
    /\ Unchanged_doc

\* lines 110-111
WriteOk ==
    /\ pc = "write"
    /\ docs' = [docs EXCEPT ![doc_id].body = Val(summary) \o @]
    /\ calls' = Append(calls, Call("documents.batchUpdate", idx, TRUE))
    /\ pc' = "get"
    /\ UNCHANGED <<idx, doc_id, prev_parents>>
    /\ Unchanged_doc

WriteFail == pc = "write" /\ doc_raises("documents.batchUpdate")

\* lines 114-115
GetParentsOk ==
    /\ pc = "get"
    /\ prev_parents' = docs[doc_id].parents
    /\ calls' = Append(calls, Call("files.get", idx, TRUE))
    /\ pc' = "move"
    /\ UNCHANGED <<idx, doc_id, docs>>
    /\ Unchanged_doc

GetParentsFail == pc = "get" /\ doc_raises("files.get")

\* lines 116-119, and the loop goes on
MoveOk ==
    /\ pc = "move"
    /\ docs' = [docs EXCEPT ![doc_id].parents = (@ \cup {DRIVE_FOLDER_ID}) \ prev_parents]
    /\ calls' = Append(calls, Call("files.update", idx, TRUE))
    /\ pc' = "loop"
    /\ idx' = idx + 1
    /\ UNCHANGED <<doc_id, prev_parents>>
    /\ Unchanged_doc

MoveFail == pc = "move" /\ doc_raises("files.update")

\* the wall clock advances while main runs
Tick ==
    /\ pc \notin {"done", "error"}
    /\ ticks < MaxTicks
    /\ now' = NextInstant(now)
    /\ ticks' = ticks + 1
    /\ UNCHANGED <<rows, pc, configs, idx, today, window, response, text_data,
                   text, prompt, summary, doc_id, prev_parents, docs, fetches,
                   calls>>

Next ==
    \/ LoadConfigs \/ LoadConfigsFail
    \/ FetchOk \/ FetchErr \/ Finish
    \/ SummarizeOk \/ SummarizeFail
    \/ CreateOk \/ CreateFail
    \/ WriteOk \/ WriteFail
    \/ GetParentsOk \/ GetParentsFail
    \/ MoveOk \/ MoveFail
    \/ Tick

Spec == Init /\ [][Next]_vars

---------------------------------------------------------------------------
(* get_configs on sheets of up to MaxSheetRows rows *)

InitConfigs ==
    /\ rows \in Sheets(MaxSheetRows)
    /\ now \in Instants
    /\ pc = "start" /\ configs = <<>> /\ idx = 0
    /\ Locals

NextConfigs == LoadConfigs \/ LoadConfigsFail

SpecConfigs == InitConfigs /\ [][NextConfigs]_vars

---------------------------------------------------------------------------
(* get_yesterday_messages on responses of up to MaxMsgs messages: main has *)
(* read a sheet of one active row and is about to fetch its channel        *)

OneRow == <<SheetRow(1, "Active")>>

AfterLoad ==
    /\ rows = OneRow /\ configs = get_configs(OneRow) /\ idx = 1
    /\ today = None /\ window = None /\ response = None /\ text_data = <<>>
    /\ prompt = None /\ summary = None
    /\ doc_id = 0 /\ prev_parents = {} /\ docs = <<>> /\ fetches = <<>>
    /\ calls = <<Call("get_all_records", 0, TRUE)>> /\ ticks = 0

InitFetch == now \in Instants /\ pc = "loop" /\ text = None /\ AfterLoad

FetchAny == FetchFrom(FetchResponses)

NextFetch == FetchAny \/ FetchErr

SpecFetch == InitFetch /\ [][NextFetch]_vars

---------------------------------------------------------------------------
(* summarize_text on transcripts around the prompt's limit: line 133 is     *)
(* reached with the transcript of a channel holding one long message        *)

LongTranscripts == {Transcript(r) : r \in LongResponses}

InitSummarize ==
    /\ now \in Instants /\ pc = "summarize"
    /\ text \in LongTranscripts
    /\ AfterLoad

NextSummarize == SummarizeOk \/ SummarizeFail

SpecSummarize == InitSummarize /\ [][NextSummarize]_vars

---------------------------------------------------------------------------
(* Reading the history of a run *)

ConfigIds == 1..Len(configs)

HasCall(svc, i, ok) == \E k \in DOMAIN calls : calls[k] = Call(svc, i, ok)

HasDoc(i) == \E k \in DOMAIN docs : docs[k].proj = i

Fetched(i) == \E k \in DOMAIN fetches : fetches[k].proj = i

\* get_yesterday_messages returned a non-empty transcript for config i
GotTranscript(i) ==
    \E k \in DOMAIN fetches :
        fetches[k].proj = i /\ fetches[k].text # None /\ fetches[k].text # Some(<<>>)

\* get_yesterday_messages returned None for config i
AbsentTranscript(i) ==
    \E k \in DOMAIN fetches : fetches[k].proj = i /\ fetches[k].text = None

NonEmptyText(m) == m.text # None /\ m.text # Some(<<>>)

\* the channel of config i had messages in the window
HadMessages(i) ==
    \E k \in DOMAIN fetches :
        /\ fetches[k].proj = i /\ fetches[k].messages # None
        /\ Len(Val(fetches[k].messages)) > 0

\* the channel of config i had a message with non-empty text in the window
HadTextMessages(i) ==
    \E k \in DOMAIN fetches :
        /\ fetches[k].proj = i /\ fetches[k].messages # None
        /\ \E n \in DOMAIN Val(fetches[k].messages) :
               NonEmptyText(Val(fetches[k].messages)[n])

PublishOrder ==
    <<"documents.create", "documents.batchUpdate", "files.get", "files.update">>

PubSvcs == {PublishOrder[k] : k \in DOMAIN PublishOrder}

IsPubCallOf(i, c) == c.proj = i /\ c.svc \in PubSvcs

\* the document and storage calls issued for config i, in order
PubCalls(i) == SelectSeq(calls, LAMBDA c : IsPubCallOf(i, c))

\* the create, write and move calls issued for config i, in order
CreateWriteMove(i) ==
    SelectSeq(calls, LAMBDA c : IsPubCallOf(i, c) /\ c.svc # "files.get")

SvcNames(cs) == [k \in DOMAIN cs |-> cs[k].svc]

Ended == pc \in {"done", "error"}

AllCallsOk == \A k \in DOMAIN calls : calls[k].ok

---------------------------------------------------------------------------
(* C1 *)

\* C1 as stated: in every end state of main(), a document exists for an active
\* config if and only if get_yesterday_messages returned a non-empty transcript
\* for it, also when an inference, write or move call failed.
C1_Original ==
    Ended => \A i \in ConfigIds : HasDoc(i) <=> GotTranscript(i)

\* C1, amended: in every state of a run, a document exists for an active config
\* if and only if get_yesterday_messages returned a non-empty transcript for it
\* and its inference call and its document create call both succeeded; no
\* config ever has two documents.
C1_DocumentIff ==
    \A i \in ConfigIds :
        /\ HasDoc(i) <=> /\ GotTranscript(i)
                         /\ HasCall("generate_content", i, TRUE)
                         /\ HasCall("documents.create", i, TRUE)
        /\ Cardinality({k \in DOMAIN docs : docs[k].proj = i}) <= 1

\* a run that ended in error with a document for one config and, for another,
\* a non-empty transcript without a document
C1_Witness ==
    /\ pc = "error"
    /\ \E i, j \in ConfigIds : HasDoc(i) /\ GotTranscript(j) /\ ~HasDoc(j)

---------------------------------------------------------------------------
(* C2 *)

\* C2 as stated: at the end of a run, every project whose inference call
\* succeeded has exactly one create, one write and one move call, in that
\* order, and a project with an absent transcript has no document or storage call.
C2_Original ==
    Ended => \A i \in ConfigIds :
        /\ HasCall("generate_content", i, TRUE) =>
               SvcNames(CreateWriteMove(i))
                   = <<"documents.create", "documents.batchUpdate", "files.update">>
        /\ AbsentTranscript(i) => PubCalls(i) = <<>>

\* C2, amended: for every project the document and storage calls are a prefix
\* of create, write, parent read, move, in that order and each at most once,
\* and only the last call issued may have failed; a project whose inference
\* call succeeded and whose calls all succeeded has all four once its iteration
\* is over; a project without a successful inference call (an absent
\* transcript included) has none.
C2_PublishCalls ==
    \A i \in ConfigIds :
        LET p == PubCalls(i) IN
        /\ Len(p) <= Len(PublishOrder)
        /\ SvcNames(p) = SubSeq(PublishOrder, 1, Len(p))
        /\ \A k \in 1..(Len(p) - 1) : p[k].ok
        /\ ( /\ HasCall("generate_content", i, TRUE)
             /\ Ended \/ i < idx
             /\ \A k \in DOMAIN p : p[k].ok )
           => Len(p) = Len(PublishOrder)
        /\ ~HasCall("generate_content", i, TRUE) => p = <<>>
        /\ AbsentTranscript(i) => p = <<>>

\* a finished run with one project fully published and one with an absent transcript
C2_Witness ==
    /\ pc = "done"
    /\ \E i, j \in ConfigIds :
           /\ HasCall("generate_content", i, TRUE)
           /\ SvcNames(PubCalls(i)) = PublishOrder
           /\ AbsentTranscript(j) /\ PubCalls(j) = <<>>

---------------------------------------------------------------------------
(* C3 *)

\* C3: when the history call of a project raised, get_yesterday_messages
\* returned None for it, the only call ever issued for that project is the
\* history call, the loop has moved past it, a run that ended in error failed
\* on a later project's call and not on this one, and a run that ended normally
\* fetched every active config.
C3_FetchErrorSwallowed ==
    \A i \in ConfigIds :
        HasCall("conversations_history", i, FALSE) =>
            /\ \A k \in DOMAIN fetches :
                   fetches[k].proj = i => fetches[k].text = None
            /\ \A k \in DOMAIN calls :
                   calls[k].proj = i => calls[k].svc = "conversations_history"
            /\ idx > i
            /\ pc = "error" =>
                   \E k \in DOMAIN calls :
                       /\ ~calls[k].ok /\ calls[k].proj > i
                       /\ calls[k].svc # "conversations_history"
            /\ pc = "done" => \A j \in ConfigIds : Fetched(j)

\* the first config's history call raised and the run went on to publish the second
C3_Witness ==
    /\ pc = "done"
    /\ HasCall("conversations_history", 1, FALSE)
    /\ HasDoc(2)

---------------------------------------------------------------------------
(* C4 *)

FatalSvcs == {"generate_content"} \cup PubSvcs

\* C4: a failed inference, create, write, parent-read or move call is the last
\* call the run ever issues: the run is in the error state at that project, and
\* no call of any kind exists for a config after it in sheet order.
C4_FailureHaltsRun ==
    \A k \in DOMAIN calls :
        (calls[k].svc \in FatalSvcs /\ ~calls[k].ok) =>
            /\ pc = "error"
            /\ k = Len(calls)
            /\ idx = calls[k].proj
            /\ \A m \in DOMAIN calls : calls[m].proj <= calls[k].proj
            /\ \A j \in ConfigIds : j > calls[k].proj => ~Fetched(j)

\* the move of the first project failed while a second active config was waiting
C4_Witness ==
    /\ pc = "error"
    /\ Len(configs) = 2
    /\ calls[Len(calls)] = Call("files.update", 1, FALSE)

---------------------------------------------------------------------------
(* C5 *)

\* C5 as stated: a run in which every call succeeded ends with as many
\* documents as there are configs whose channel had messages in the window.
C5_Original ==
    (pc = "done" /\ AllCallsOk) =>
        Len(docs) = Cardinality({i \in ConfigIds : HadMessages(i)})

\* the calls of one config in a run without failures
CallsOfConfig(i) ==
    <<Call("conversations_history", i, TRUE)>>
    \o (IF HadTextMessages(i)
        THEN <<Call("generate_content", i, TRUE)>>
             \o [k \in DOMAIN PublishOrder |-> Call(PublishOrder[k], i, TRUE)]
        ELSE <<>>)

RECURSIVE ExpectedRun(_)
\* the calls of a run without failures over the first n configs
ExpectedRun(n) ==
    IF n = 0 THEN <<Call("get_all_records", 0, TRUE)>>
    ELSE ExpectedRun(n - 1) \o CallsOfConfig(n)

SuccessStep ==
    \/ LoadConfigs \/ FetchOk \/ Finish \/ SummarizeOk
    \/ CreateOk \/ WriteOk \/ GetParentsOk \/ MoveOk

\* C5, amended: a run in which every call succeeds never enters the error
\* state and can always take a further step until it is done; when it is done
\* its calls are those of each active config, once each and in sheet order, all
\* calls of a config before any of the next, and the number of documents
\* equals the number of configs whose channel had a message with non-empty
\* text in the window.
C5_SuccessfulRun ==
    AllCallsOk =>
        /\ pc # "error"
        /\ pc # "done" => ENABLED SuccessStep
        /\ pc = "done" =>
               /\ calls = ExpectedRun(Len(configs))
               /\ Len(fetches) = Len(configs)
               /\ Len(docs) = Cardinality({i \in ConfigIds : HadTextMessages(i)})

\* two active configs, every call succeeded, one document: the other channel
\* held only a message without text
C5_Witness ==
    /\ pc = "done" /\ AllCallsOk
    /\ Len(configs) = 2 /\ Len(docs) = 1
    /\ \E i \in ConfigIds : HadMessages(i) /\ ~HadTextMessages(i)

---------------------------------------------------------------------------
(* C6 *)

\* 'User(<id>): <text>' of a message with text
EntryOf(m) ==
    <<"U", "s", "e", "r", "(">>
    \o (IF m.user = None THEN <<"U", "n", "k", "n", "o", "w", "n">> ELSE m.user[1])
    \o <<")", ":", " ">> \o m.text[1]

IsNewline(c) == c = "\n"

RECURSIVE SplitLines(_)
\* the lines of a string
SplitLines(str) ==
    IF \A k \in DOMAIN str : ~IsNewline(str[k]) THEN <<str>>
    ELSE LET k == CHOOSE k \in DOMAIN str :
                      IsNewline(str[k]) /\ \A j \in 1..(k - 1) : ~IsNewline(str[j])
         IN <<SubSeq(str, 1, k - 1)>> \o SplitLines(SubSeq(str, k + 1, Len(str)))

\* the positions of the messages with non-empty text
Kept(r) == {k \in DOMAIN r : NonEmptyText(r[k])}

\* the returned string is text_data joined by newlines
JoinsTextData ==
    IF text_data = <<>> THEN text = Some(<<>>)
    ELSE text # None /\ SplitLines(Val(text)) = text_data

FetchedMessages == response # None /\ Len(Val(response)) > 0

\* C6 as stated: for a channel with messages, the transcript has one entry per
\* message with non-empty text and none for the others, oldest first, in
\* whatever order the service returned the messages.
C6_Original ==
    FetchedMessages =>
        LET r == Val(response) IN
        /\ Len(text_data) = Cardinality(Kept(r))
        /\ \E f \in [DOMAIN text_data -> Kept(r)] :
               /\ \A a, b \in DOMAIN text_data : a < b => r[f[a]].ts < r[f[b]].ts
               /\ \A a \in DOMAIN text_data : text_data[a] = EntryOf(r[f[a]])
        /\ JoinsTextData

\* C6, amended: for a channel with messages, the transcript has one entry per
\* message with non-empty text and none for the others, in the reverse of the
\* order in which the service returned the messages (oldest first when the
\* service returns them newest first), joined by newlines.
C6_ReverseOfReturned ==
    FetchedMessages =>
        LET r == Val(response) IN
        /\ Len(text_data) = Cardinality(Kept(r))
        /\ \E f \in [DOMAIN text_data -> Kept(r)] :
               /\ \A a, b \in DOMAIN text_data : a < b => f[a] > f[b]
               /\ \A a \in DOMAIN text_data : text_data[a] = EntryOf(r[f[a]])
        /\ JoinsTextData

\* the service returned, newest first, two messages with different non-empty
\* entries, and the transcript lists the older one first
C6_Witness ==
    /\ FetchedMessages
    /\ Len(Val(response)) = 2
    /\ Val(response)[1].ts > Val(response)[2].ts
    /\ Len(text_data) = 2
    /\ text_data[1] # text_data[2]
    /\ text_data[1] = EntryOf(Val(response)[2])

---------------------------------------------------------------------------
(* C7 *)

\* C7: get_configs returns exactly the rows whose Status is 'Active', in sheet
\* order: the returned list maps one to one and in increasing order onto the
\* positions of the active rows.
C7_ActiveRowsInOrder ==
    pc = "loop" =>
        \E f \in [DOMAIN configs -> DOMAIN rows] :
            /\ \A a, b \in DOMAIN configs : a < b => f[a] < f[b]
            /\ \A a \in DOMAIN configs : configs[a] = rows[f[a]]
            /\ \A k \in DOMAIN rows :
                   rows[k].Status = "Active" <=> \E a \in DOMAIN configs : f[a] = k

\* a sheet of three rows whose middle row is not active: the two others are returned
C7_Witness ==
    /\ pc = "loop"
    /\ Len(rows) = 3 /\ rows[2].Status = "active"
    /\ Len(configs) = 2

---------------------------------------------------------------------------
(* C8 *)

\* C8 as stated: the window starts exactly at 00:00:00 and ends exactly at
\* 23:59:59 of the day before the call, whatever the time of day (sub-second
\* part included) of the call.
C8_Original ==
    window # None =>
        LET y == MinusOneDay(Val(today)) IN
        /\ Val(window).oldest =
               Timestamp([y EXCEPT !.h = 0, !.mi = 0, !.s = 0, !.us = 0])
        /\ Val(window).latest =
               Timestamp([y EXCEPT !.h = 23, !.mi = 59, !.s = 59, !.us = 0])

---------------------------------------------------------------------------
(* C9 *)

\* C9: the transcript text in the prompt of the inference call is the first
\* 20,000 characters of the transcript when it is longer and the whole
\* transcript otherwise, and summarize_text issues one inference call.
C9_PromptLog ==
    prompt # None =>
        LET t == Val(text)
            log == Val(prompt).log
            n == IF Len(t) > MaxPromptChars THEN MaxPromptChars ELSE Len(t)
        IN /\ Len(log) = n
           /\ \A i \in 1..n : log[i] = t[i]
           /\ Cardinality({k \in DOMAIN calls :
                   calls[k].svc = "generate_content" /\ calls[k].proj = idx}) = 1

\* the inference service was called with a transcript longer than the limit
C9_Witness ==
    /\ prompt # None
    /\ Len(Val(text)) > MaxPromptChars
    /\ HasCall("generate_content", 1, TRUE)

---------------------------------------------------------------------------
(* C10 *)

\* C10 as stated: the date in the title of every document is the day whose
\* messages were fetched for its project.
C10_Original ==
    \A k \in DOMAIN docs :
        \A n \in DOMAIN fetches :
            fetches[n].proj = docs[k].proj =>
                SubSeq(docs[k].title, 1, 10) = Strftime(fetches[n].day)

====
